---- MODULE Spec2Model ----
(***************************************************************************)
(* The validating admission webhook of app.py: the /validate handler, the  *)
(* required-labels rule and the privileged-container rule.                 *)
(*                                                                         *)
(* JSON values are tagged records, so that a value of one JSON type is     *)
(* never confused with a value of another (the string "true", the number 1 *)
(* and the boolean true are three different values).  A JSON object is the *)
(* sequence of its <<key, value>> pairs in document order, with distinct   *)
(* keys, which is what a Python dict built by the JSON parser holds.       *)
(***************************************************************************)
EXTENDS Integers, Sequences, FiniteSets, TLC

VARIABLES REQUIRED_LABELS, pc, review, uid, metadata, spec, missing, privileged, responses

vars == <<REQUIRED_LABELS, pc, review, uid, metadata, spec, missing, privileged, responses>>

\* ------------------------------------------------------------------ bounds
NumWorkers == 2
MaxContainers == 2
MaxLabels == 3

Workers == 1..NumWorkers

\* ------------------------------------------------------------- JSON values
Null == [t |-> "null"]
Bool(b) == [t |-> "bool", b |-> b]
Str(s) == [t |-> "str", s |-> s]
Num(n) == [t |-> "num", n |-> n]
List(a) == [t |-> "list", a |-> a]
Obj(m) == [t |-> "obj", m |-> m]

\* A raised Python exception, as the outcome of evaluating an expression.
Raise(e) == [t |-> "raise", e |-> e]
IsRaise(v) == v.t = "raise"

\* A local variable that has not been assigned yet.
Unset == [t |-> "unset"]

HasKey(m, k) == \E i \in 1..Len(m) : m[i][1] = k
Lookup(m, k) == m[CHOOSE i \in 1..Len(m) : m[i][1] = k][2]

\* d[k]: KeyError when the dict has no such key, TypeError when d is not a
\* dict (None, a number, a boolean, or a string or list indexed by a string).
getitem(d, k) ==
    IF d.t = "obj"
    THEN IF HasKey(d.m, k) THEN Lookup(d.m, k) ELSE Raise("KeyError")
    ELSE Raise("TypeError")

\* d.get(k, default): only a dict has the method get.
get(d, k, default) ==
    IF d.t = "obj"
    THEN IF HasKey(d.m, k) THEN Lookup(d.m, k) ELSE default
    ELSE Raise("AttributeError")

\* Mutation: `if sec.get("privileged", False):`, truthiness in place of identity.
truthy(v) ==
    CASE v.t = "bool" -> v.b
      [] v.t = "null" -> FALSE
      [] v.t = "num" -> v.n # 0
      [] v.t = "str" -> v.s # ""
      [] v.t = "list" -> v.a # <<>>
      [] v.t = "obj" -> v.m # <<>>

\* `x is True`: identity with the boolean true, no truthiness coercion.
is_True(v) == v.t = "bool" /\ v.b = TRUE

\* The value of an expression that did not raise, when it is not a JSON value.
Ok(v) == [t |-> "ok", v |-> v]

\* ------------------------------------------------------------ is_privileged
\* The items `for c in containers` visits, or the exception it raises: a
\* list yields its elements, a dict its keys, a string its characters (each a
\* string again; only emptiness matters below); anything else is not iterable.
iterate(containers) ==
    CASE containers.t = "list" -> Ok(containers.a)
      [] containers.t = "obj" -> Ok([i \in 1..Len(containers.m) |-> Str(containers.m[i][1])])
      [] containers.t = "str" -> Ok(IF containers.s = "" THEN <<>> ELSE <<Str("c")>>)
      [] OTHER -> Raise("TypeError")

\* Mutation: `return False` inside the loop, so only the first container is
\* looked at.
scan_first(cs) ==
    IF cs = <<>> THEN Bool(FALSE)
    ELSE LET sec == get(Head(cs), "securityContext", Obj(<<>>))
             p == IF IsRaise(sec) THEN sec ELSE get(sec, "privileged", Bool(FALSE))
         IN  IF IsRaise(p) THEN p ELSE Bool(is_True(p))

\* The body of the loop, from the first container on: the first container
\* that raises or is privileged ends the scan.
RECURSIVE scan(_)
scan(cs) ==
    IF cs = <<>> THEN Bool(FALSE)
    ELSE LET sec == get(Head(cs), "securityContext", Obj(<<>>))
             p == IF IsRaise(sec) THEN sec ELSE get(sec, "privileged", Bool(FALSE))
         IN  IF IsRaise(p) THEN p
             ELSE IF is_True(p) THEN Bool(TRUE)
             ELSE scan(Tail(cs))

is_privileged(pod_spec) ==
    LET containers == get(pod_spec, "containers", List(<<>>))
        items == IF IsRaise(containers) THEN containers ELSE iterate(containers)
    IN  IF IsRaise(items) THEN items ELSE scan(items.v)

\* ------------------------------------------------------------------ labels
\* Mutation: `labels.get(l)` used as the test, so a label whose value is the
\* empty string counts as missing.
contains_nonempty(labels, l) ==
    CASE labels.t = "obj" -> HasKey(labels.m, l) /\ truthy(Lookup(labels.m, l))
      [] labels.t = "list" -> \E i \in 1..Len(labels.a) : labels.a[i] = Str(l)

\* `l in labels`: a key of a dict or an element of a list; None, a number and
\* a boolean are not containers (TypeError).  A string (substring test) is
\* outside the shapes modelled here.
contains(labels, l) ==
    CASE labels.t = "obj" -> HasKey(labels.m, l)
      [] labels.t = "list" -> \E i \in 1..Len(labels.a) : labels.a[i] = Str(l)

\* Mutation: the missing keys collected without keeping the configured order
\* (here: in reverse).
missing_labels_unordered(required, labels) ==
    IF labels.t \in {"obj", "list"}
    THEN LET ms == SelectSeq(required, LAMBDA l : ~contains(labels, l))
         IN  Ok([i \in 1..Len(ms) |-> ms[Len(ms) + 1 - i]])
    ELSE IF required = <<>> THEN Ok(<<>>) ELSE Raise("TypeError")

\* [l for l in required if l not in labels]
missing_labels(required, labels) ==
    IF labels.t \in {"obj", "list"}
    THEN Ok(SelectSeq(required, LAMBDA l : ~contains(labels, l)))
    ELSE IF required = <<>> THEN Ok(<<>>) ELSE Raise("TypeError")

\* repr of a list of plain strings, as the f-string renders it:
\* ['team', 'environment']
RECURSIVE repr_items(_)
repr_items(xs) ==
    IF xs = <<>> THEN ""
    ELSE IF Len(xs) = 1 THEN "'" \o Head(xs) \o "'"
    ELSE "'" \o Head(xs) \o "', " \o repr_items(Tail(xs))

repr_list(xs) == "[" \o repr_items(xs) \o "]"

\* --------------------------------------------------------------- responses
\* jsonify(...) of the three bodies validate returns, with HTTP status 200.
AdmissionReview(response) ==
    [code |-> 200,
     body |-> [apiVersion |-> "admission.k8s.io/v1",
               kind |-> "AdmissionReview",
               response |-> response]]

deny_missing(u, m) ==
    AdmissionReview([uid |-> u, allowed |-> FALSE,
                     status |-> [message |-> "Missing required labels: " \o repr_list(m)]])

deny_privileged(u) ==
    AdmissionReview([uid |-> u, allowed |-> FALSE,
                     status |-> [message |-> "Privileged containers are not allowed"]])

allow(u) == AdmissionReview([uid |-> u, allowed |-> TRUE])

\* An exception that leaves the view function: Flask answers 500, no verdict.
server_error(r) == [code |-> 500, exc |-> r.e]

\* Mutation: metadata and spec read with obj[...] instead of obj.get(..., {}).
parse_strict(rv) ==
    LET req == getitem(rv, "request")
        u == IF IsRaise(req) THEN req ELSE getitem(req, "uid")
        obj == IF IsRaise(u) THEN u ELSE getitem(req, "object")
        md == IF IsRaise(obj) THEN obj ELSE getitem(obj, "metadata")
        sp == IF IsRaise(md) THEN md ELSE getitem(obj, "spec")
    IN  IF IsRaise(sp) THEN sp ELSE Ok([uid |-> u, metadata |-> md, spec |-> sp])

\* Mutation: the uid read from the envelope's top level, where there is none.
parse_uid_top(rv) ==
    LET req == getitem(rv, "request")
        u == IF IsRaise(req) THEN req ELSE get(rv, "uid", Str(""))
        obj == IF IsRaise(u) THEN u ELSE getitem(req, "object")
        md == IF IsRaise(obj) THEN obj ELSE get(obj, "metadata", Obj(<<>>))
        sp == IF IsRaise(md) THEN md ELSE get(obj, "spec", Obj(<<>>))
    IN  IF IsRaise(sp) THEN sp ELSE Ok([uid |-> u, metadata |-> md, spec |-> sp])

\* ------------------------------------------------------------------- parse
\* req = review["request"]; uid = req["uid"]; obj = req["object"];
\* metadata = obj.get("metadata", {}); spec = obj.get("spec", {})
parse(rv) ==
    LET req == getitem(rv, "request")
        u == IF IsRaise(req) THEN req ELSE getitem(req, "uid")
        obj == IF IsRaise(u) THEN u ELSE getitem(req, "object")
        md == IF IsRaise(obj) THEN obj ELSE get(obj, "metadata", Obj(<<>>))
        sp == IF IsRaise(md) THEN md ELSE get(obj, "spec", Obj(<<>>))
    IN  IF IsRaise(sp) THEN sp ELSE Ok([uid |-> u, metadata |-> md, spec |-> sp])

\* labels = metadata.get("labels", {}); missing = [...]
find_missing(md, required) ==
    LET labels == get(md, "labels", Obj(<<>>))
    IN  IF IsRaise(labels) THEN labels ELSE missing_labels(required, labels)

\* The whole handler run from start to end without interruption.
validate(rv, required) ==
    LET p == parse(rv)
        m == IF IsRaise(p) THEN p ELSE find_missing(p.v.metadata, required)
        priv == IF IsRaise(m) THEN m ELSE is_privileged(p.v.spec)
    IN  IF IsRaise(p) THEN server_error(p)
        ELSE IF IsRaise(m) THEN server_error(m)
        ELSE IF m.v # <<>> THEN deny_missing(p.v.uid, m.v)
        ELSE IF IsRaise(priv) THEN server_error(priv)
        ELSE IF priv.b THEN deny_privileged(p.v.uid)
        ELSE allow(p.v.uid)

\* ------------------------------------------------------------------ inputs
\* Request bodies POSTed to /validate.  A field that is left out of a JSON
\* object is written Absent while the body is being put together.
Absent == [t |-> "absent"]
opt(k, v) == IF v = Absent THEN <<>> ELSE <<<<k, v>>>>

Uids == {Str("uid-1"), Str("uid-2")}

LabelPairs ==
    {<<"team", Str("")>>, <<"team", Str("platform")>>,
     <<"environment", Str("prod")>>, <<"app", Str("web")>>}

\* Label mappings of at most MaxLabels entries, in every document order.
LabelMaps ==
    {m \in UNION {[1..n -> LabelPairs] : n \in 0..MaxLabels} :
        \A i, j \in 1..Len(m) : i # j => m[i][1] # m[j][1]}

Metadatas ==
    {Absent, Null, Obj(<<>>), Obj(<<<<"labels", Null>>>>)}
        \cup {Obj(<<<<"name", Str("pod")>>, <<"labels", Obj(m)>>>>) : m \in LabelMaps}

SecurityContexts ==
    {Absent, Obj(<<>>),
     Obj(<<<<"privileged", Bool(TRUE)>>>>), Obj(<<<<"privileged", Bool(FALSE)>>>>),
     Obj(<<<<"privileged", Str("true")>>>>), Obj(<<<<"privileged", Num(1)>>>>),
     Obj(<<<<"runAsUser", Num(0)>>, <<"privileged", Bool(TRUE)>>>>),
     Null, Str("privileged"), List(<<>>)}

Containers == {Obj(<<<<"image", Str("nginx")>>>> \o opt("securityContext", sc)) : sc \in SecurityContexts}

ContainerLists == UNION {[1..n -> Containers] : n \in 0..MaxContainers}

PodSpecs ==
    {Absent, Obj(<<>>), Obj(<<<<"containers", Null>>>>)}
        \cup {Obj(<<<<"containers", List(cs)>>>>) : cs \in ContainerLists}

Envelope(u, obj) == Obj(<<<<"request", Obj(opt("uid", u) \o opt("object", obj))>>>>)

Object(md, sp) == Obj(opt("metadata", md) \o opt("spec", sp))

\* Envelopes without request, request.uid or request.object.
MalformedEnvelopes ==
    {Obj(<<>>), Envelope(Absent, Object(Absent, Absent)), Envelope(Str("uid-1"), Absent)}

\* A few metadata and pod specs of each kind, paired with every shape of the
\* other half of the object.
CoreMetadatas ==
    {Absent, Obj(<<<<"labels", Obj(<<>>)>>>>),
     Obj(<<<<"labels", Obj(<<<<"team", Str("platform")>>>>)>>>>),
     Obj(<<<<"labels", Obj(<<<<"environment", Str("prod")>>, <<"team", Str("")>>>>)>>>>)}

CorePodSpecs ==
    {Absent, Obj(<<<<"containers", List(<<>>)>>>>)}
        \cup {Obj(<<<<"containers", List(<<c>>)>>>>) : c \in Containers}

Reviews ==
    {Envelope(u, Object(md, sp)) : u \in Uids, md \in Metadatas, sp \in CorePodSpecs}
        \cup {Envelope(u, Object(md, sp)) : u \in Uids, md \in CoreMetadatas, sp \in PodSpecs}
        \cup MalformedEnvelopes

\* The requests of the concurrent specification: every outcome, two uids.
ConcReviews ==
    {Envelope(u, Object(Obj(<<<<"labels", Obj(m)>>>>), Obj(<<<<"containers", List(cs)>>>>))) :
        u \in Uids,
        m \in {<<>>, <<<<"team", Str("platform")>>>>,
               <<<<"environment", Str("prod")>>, <<"team", Str("")>>>>},
        cs \in {<<>>, <<Obj(<<<<"securityContext", Obj(<<<<"privileged", Bool(TRUE)>>>>)>>>>)>>}}

\* ------------------------------------------------------------------- state
RequiredLabels == <<"team", "environment">>

Init ==
    /\ REQUIRED_LABELS = RequiredLabels
    /\ pc = [w \in Workers |-> "idle"]
    /\ review = [w \in Workers |-> Unset]
    /\ uid = [w \in Workers |-> Unset]
    /\ metadata = [w \in Workers |-> Unset]
    /\ spec = [w \in Workers |-> Unset]
    /\ missing = [w \in Workers |-> <<>>]
    /\ privileged = [w \in Workers |-> FALSE]
    /\ responses = [w \in Workers |-> <<>>]

\* The view function returns (or an exception leaves it): one response.
Return(w, r) ==
    /\ responses' = [responses EXCEPT ![w] = Append(@, r)]
    /\ pc' = [pc EXCEPT ![w] = "done"]

\* A worker picks up a request: review = request.get_json()
Receive(w, rv) ==
    /\ pc[w] = "idle"
    /\ review' = [review EXCEPT ![w] = rv]
    /\ pc' = [pc EXCEPT ![w] = "parse"]
    /\ UNCHANGED <<REQUIRED_LABELS, uid, metadata, spec, missing, privileged, responses>>

Parse(w) ==
    /\ pc[w] = "parse"
    /\ LET p == parse(review[w])
       IN  IF IsRaise(p)
           THEN /\ Return(w, server_error(p))
                /\ UNCHANGED <<uid, metadata, spec>>
           ELSE /\ uid' = [uid EXCEPT ![w] = p.v.uid]
                /\ metadata' = [metadata EXCEPT ![w] = p.v.metadata]
                /\ spec' = [spec EXCEPT ![w] = p.v.spec]
                /\ pc' = [pc EXCEPT ![w] = "labels"]
                /\ UNCHANGED responses
    /\ UNCHANGED <<REQUIRED_LABELS, review, missing, privileged>>

\* Mutation: the privileged-container rule is applied first.
LabelCheck_privileged_first(w) ==
    /\ pc[w] = "labels"
    /\ LET r == is_privileged(spec[w])
           m == find_missing(metadata[w], REQUIRED_LABELS)
       IN  IF IsRaise(r)
           THEN /\ Return(w, server_error(r))
                /\ UNCHANGED missing
           ELSE IF r.b
           THEN /\ pc' = [pc EXCEPT ![w] = "deny_privileged"]
                /\ UNCHANGED <<missing, responses>>
           ELSE IF IsRaise(m)
           THEN /\ Return(w, server_error(m))
                /\ UNCHANGED missing
           ELSE /\ missing' = [missing EXCEPT ![w] = m.v]
                /\ pc' = [pc EXCEPT ![w] = IF m.v # <<>> THEN "deny_missing" ELSE "privileged"]
                /\ UNCHANGED responses
    /\ UNCHANGED <<REQUIRED_LABELS, review, uid, metadata, spec, privileged>>

\* Mutation: `missing` is a module-level variable, shared by all workers.
LabelCheck_shared(w) ==
    /\ pc[w] = "labels"
    /\ LET m == find_missing(metadata[w], REQUIRED_LABELS)
       IN  IF IsRaise(m)
           THEN /\ Return(w, server_error(m))
                /\ UNCHANGED missing
           ELSE /\ missing' = [v \in Workers |-> m.v]
                /\ pc' = [pc EXCEPT ![w] = IF m.v # <<>> THEN "deny_missing" ELSE "privileged"]
                /\ UNCHANGED responses
    /\ UNCHANGED <<REQUIRED_LABELS, review, uid, metadata, spec, privileged>>

LabelCheck(w) ==
    /\ pc[w] = "labels"
    /\ LET m == find_missing(metadata[w], REQUIRED_LABELS)
       IN  IF IsRaise(m)
           THEN /\ Return(w, server_error(m))
                /\ UNCHANGED missing
           ELSE /\ missing' = [missing EXCEPT ![w] = m.v]
                /\ pc' = [pc EXCEPT ![w] = IF m.v # <<>> THEN "deny_missing" ELSE "privileged"]
                /\ UNCHANGED responses
    /\ UNCHANGED <<REQUIRED_LABELS, review, uid, metadata, spec, privileged>>

\* Mutation: the denial is produced but the function does not return.
DenyMissing_fallthrough(w) ==
    /\ pc[w] = "deny_missing"
    /\ responses' = [responses EXCEPT ![w] = Append(@, deny_missing(uid[w], missing[w]))]
    /\ pc' = [pc EXCEPT ![w] = "privileged"]
    /\ UNCHANGED <<REQUIRED_LABELS, review, uid, metadata, spec, missing, privileged>>

DenyMissing(w) ==
    /\ pc[w] = "deny_missing"
    /\ Return(w, deny_missing(uid[w], missing[w]))
    /\ UNCHANGED <<REQUIRED_LABELS, review, uid, metadata, spec, missing, privileged>>

PrivCheck(w) ==
    /\ pc[w] = "privileged"
    /\ LET r == is_privileged(spec[w])
       IN  IF IsRaise(r)
           THEN /\ Return(w, server_error(r))
                /\ UNCHANGED privileged
           ELSE /\ privileged' = [privileged EXCEPT ![w] = r.b]
                /\ pc' = [pc EXCEPT ![w] = IF r.b THEN "deny_privileged" ELSE "allow"]
                /\ UNCHANGED responses
    /\ UNCHANGED <<REQUIRED_LABELS, review, uid, metadata, spec, missing>>

DenyPrivileged(w) ==
    /\ pc[w] = "deny_privileged"
    /\ Return(w, deny_privileged(uid[w]))
    /\ UNCHANGED <<REQUIRED_LABELS, review, uid, metadata, spec, missing, privileged>>

Allow(w) ==
    /\ pc[w] = "allow"
    /\ Return(w, allow(uid[w]))
    /\ UNCHANGED <<REQUIRED_LABELS, review, uid, metadata, spec, missing, privileged>>

\* The response is sent and the call's locals are discarded.
Reply(w) ==
    /\ pc[w] = "done"
    /\ pc' = [pc EXCEPT ![w] = "idle"]
    /\ review' = [review EXCEPT ![w] = Unset]
    /\ uid' = [uid EXCEPT ![w] = Unset]
    /\ metadata' = [metadata EXCEPT ![w] = Unset]
    /\ spec' = [spec EXCEPT ![w] = Unset]
    /\ missing' = [missing EXCEPT ![w] = <<>>]
    /\ privileged' = [privileged EXCEPT ![w] = FALSE]
    /\ responses' = [responses EXCEPT ![w] = <<>>]
    /\ UNCHANGED REQUIRED_LABELS

Handle(w) ==
    \/ Parse(w)
    \/ LabelCheck(w)
    \/ DenyMissing(w)
    \/ PrivCheck(w)
    \/ DenyPrivileged(w)
    \/ Allow(w)
    \/ Reply(w)

\* One request at a time, over every shape of request body.
Next == (\E rv \in Reviews : Receive(1, rv)) \/ Handle(1)

Spec == Init /\ [][Next]_vars

\* NumWorkers requests in flight at once, their steps interleaved.
NextConc == \E w \in Workers : (\E rv \in ConcReviews : Receive(w, rv)) \/ Handle(w)

SpecConc == Init /\ [][NextConc]_vars

(***************************************************************************)
(* What the claims speak of, read off the request body itself.             *)
(***************************************************************************)
Present(d, k) == d.t = "obj" /\ \E i \in 1..Len(d.m) : d.m[i][1] = k
At(d, k) == d.m[CHOOSE i \in 1..Len(d.m) : d.m[i][1] = k][2]
Child(d, k, empty) == IF Present(d, k) THEN At(d, k) ELSE empty

HasEnvelope(rv) ==
    /\ Present(rv, "request")
    /\ Present(At(rv, "request"), "uid")
    /\ Present(At(rv, "request"), "object")

UidOf(rv) == At(At(rv, "request"), "uid")
ObjectOf(rv) == At(At(rv, "request"), "object")
MetadataOf(rv) == Child(ObjectOf(rv), "metadata", Obj(<<>>))
LabelsOf(rv) == Child(MetadataOf(rv), "labels", Obj(<<>>))
PodSpecOf(rv) == Child(ObjectOf(rv), "spec", Obj(<<>>))
ContainersIn(sp) == Child(sp, "containers", List(<<>>))
SecurityContextOf(c) == Child(c, "securityContext", Obj(<<>>))
PrivilegedOf(c) == Child(SecurityContextOf(c), "privileged", Bool(FALSE))

\* request.uid and request.object are there, metadata and labels are
\* mappings when present.
LabelsWellFormed(rv) ==
    /\ HasEnvelope(rv)
    /\ ObjectOf(rv).t = "obj"
    /\ MetadataOf(rv).t = "obj"
    /\ LabelsOf(rv).t = "obj"

\* spec is a mapping and containers a sequence of mappings when present.
ContainersWellFormed(rv) ==
    /\ PodSpecOf(rv).t = "obj"
    /\ ContainersIn(PodSpecOf(rv)).t = "list"
    /\ \A i \in 1..Len(ContainersIn(PodSpecOf(rv)).a) : ContainersIn(PodSpecOf(rv)).a[i].t = "obj"

\* A request of the data model: every nested field is absent or has the
\* shape the data model gives it; privileged may hold any value.
WellFormed(rv) ==
    /\ LabelsWellFormed(rv)
    /\ ContainersWellFormed(rv)
    /\ \A i \in 1..Len(ContainersIn(PodSpecOf(rv)).a) :
          SecurityContextOf(ContainersIn(PodSpecOf(rv)).a[i]).t = "obj"

LabelKeys(rv) == {LabelsOf(rv).m[i][1] : i \in 1..Len(LabelsOf(rv).m)}
MissingKeys(rv) == {"team", "environment"} \ LabelKeys(rv)

\* Some container of the pod spec carries securityContext.privileged = true.
SomePrivileged(sp) ==
    /\ ContainersIn(sp).t = "list"
    /\ \E i \in 1..Len(ContainersIn(sp).a) : PrivilegedOf(ContainersIn(sp).a[i]) = Bool(TRUE)

MissingMessage(ms) ==
    CASE ms = {"team", "environment"} -> "Missing required labels: ['team', 'environment']"
      [] ms = {"team"} -> "Missing required labels: ['team']"
      [] ms = {"environment"} -> "Missing required labels: ['environment']"
      [] OTHER -> "Missing required labels: []"

PrivilegedMessage == "Privileged containers are not allowed"

Answered(w) == pc[w] = "done" /\ Len(responses[w]) >= 1
Answer(w) == responses[w][1]
Verdict(w) == Answer(w).body.response
Is200(w) == Answered(w) /\ Answer(w).code = 200
Denied(w) == Is200(w) /\ Verdict(w).allowed = FALSE
Allowed(w) == Is200(w) /\ Verdict(w).allowed = TRUE
DeniedWith(w, msg) == Denied(w) /\ Verdict(w).status.message = msg
DeniedMissing(w) ==
    Denied(w) /\ Verdict(w).status.message \in {MissingMessage(ms) : ms \in SUBSET {"team", "environment"}}

\* The request with every absent nested field written out as the empty
\* mapping, the empty sequence or false, and nothing but the consumed fields.
Filled(rv) ==
    LET cs == ContainersIn(PodSpecOf(rv)).a
        full(c) == Obj(<<<<"securityContext", Obj(<<<<"privileged", PrivilegedOf(c)>>>>)>>>>)
    IN  Envelope(UidOf(rv),
                 Object(Obj(<<<<"labels", LabelsOf(rv)>>>>),
                        Obj(<<<<"containers", List([i \in 1..Len(cs) |-> full(cs[i])])>>>>)))

SomeAbsent(rv) ==
    \/ ~Present(ObjectOf(rv), "metadata")
    \/ ~Present(MetadataOf(rv), "labels")
    \/ ~Present(ObjectOf(rv), "spec")
    \/ ~Present(PodSpecOf(rv), "containers")
    \/ \E i \in 1..Len(ContainersIn(PodSpecOf(rv)).a) :
          \/ ~Present(ContainersIn(PodSpecOf(rv)).a[i], "securityContext")
          \/ ~Present(SecurityContextOf(ContainersIn(PodSpecOf(rv)).a[i]), "privileged")

(***************************************************************************)
(* The claims.                                                             *)
(***************************************************************************)

\* C1: for every well-formed request the labels rule is applied before the
\* privileged-container rule and the first violation is the verdict: a missing
\* required label gives the missing-labels denial even when a privileged
\* container is present; otherwise a privileged container gives the
\* privileged-container denial; otherwise the request is allowed.
C1_RuleOrder ==
    \A w \in Workers :
        pc[w] = "done" /\ WellFormed(review[w]) =>
            IF MissingKeys(review[w]) # {} THEN DeniedMissing(w)
            ELSE IF SomePrivileged(PodSpecOf(review[w])) THEN DeniedWith(w, PrivilegedMessage)
            ELSE Allowed(w)

C1_Witness ==
    \E w \in Workers :
        /\ pc[w] = "done" /\ WellFormed(review[w])
        /\ MissingKeys(review[w]) = {"environment"}
        /\ SomePrivileged(PodSpecOf(review[w]))
        /\ DeniedWith(w, "Missing required labels: ['environment']")

\* C2, as stated: every request with at least one privileged container is
\* denied with the fixed privileged-container message, also when required
\* labels are missing.
C2_Original ==
    \A w \in Workers :
        pc[w] = "done" /\ WellFormed(review[w]) /\ SomePrivileged(PodSpecOf(review[w])) =>
            DeniedWith(w, PrivilegedMessage)

\* C2, amended: every request with at least one privileged container is
\* denied; the message is the fixed privileged-container message when no
\* required label is missing, and the missing-labels message when one is.
C2_Amended ==
    \A w \in Workers :
        pc[w] = "done" /\ WellFormed(review[w]) /\ SomePrivileged(PodSpecOf(review[w])) =>
            /\ Denied(w)
            /\ MissingKeys(review[w]) = {} => Verdict(w).status.message = PrivilegedMessage
            /\ MissingKeys(review[w]) # {} =>
                  Verdict(w).status.message = MissingMessage(MissingKeys(review[w]))

C2_Witness ==
    \E w \in Workers :
        /\ pc[w] = "done" /\ WellFormed(review[w]) /\ MissingKeys(review[w]) = {}
        /\ LET cs == ContainersIn(PodSpecOf(review[w])).a
           IN  Len(cs) = 2 /\ PrivilegedOf(cs[1]) # Bool(TRUE) /\ PrivilegedOf(cs[2]) = Bool(TRUE)
        /\ DeniedWith(w, PrivilegedMessage)

\* C3: a request whose labels lack a required key is denied, and the message
\* is "Missing required labels: " followed by the list of exactly the missing
\* keys, each once, team before environment, whatever labels were supplied
\* and in whatever order.
C3_MissingMessage ==
    \A w \in Workers :
        pc[w] = "done" /\ LabelsWellFormed(review[w]) /\ MissingKeys(review[w]) # {} =>
            DeniedWith(w, MissingMessage(MissingKeys(review[w])))

C3_Witness ==
    \E w \in Workers :
        /\ pc[w] = "done" /\ LabelsWellFormed(review[w])
        /\ LabelKeys(review[w]) = {"app"}
        /\ DeniedWith(w, "Missing required labels: ['team', 'environment']")

\* C4: when the labels contain every required key the labels rule passes,
\* whatever other labels are present and whatever the values are, the empty
\* string included: no missing-labels denial is prepared or returned.
C4_AllLabelsPass ==
    \A w \in Workers :
        LabelsWellFormed(review[w]) /\ MissingKeys(review[w]) = {} =>
            /\ pc[w] # "deny_missing"
            /\ pc[w] \in {"privileged", "deny_privileged", "allow"} => missing[w] = <<>>
            /\ ~DeniedMissing(w)

C4_Witness ==
    \E w \in Workers :
        /\ LabelsWellFormed(review[w])
        /\ LabelKeys(review[w]) = {"team", "environment", "app"}
        /\ At(LabelsOf(review[w]), "team") = Str("")
        /\ Allowed(w)

\* C5: is_privileged returns true exactly when some container carries
\* securityContext.privileged equal to the boolean true; with no such
\* container (no containers, privileged missing, false, "true" or 1) the
\* privileged-container rule passes.
C5_IsPrivileged ==
    \A w \in Workers :
        /\ pc[w] \in {"deny_privileged", "allow"} =>
              (privileged[w] <=> SomePrivileged(spec[w]))
        /\ pc[w] = "done" /\ WellFormed(review[w]) /\ MissingKeys(review[w]) = {}
                /\ ~SomePrivileged(PodSpecOf(review[w])) => Allowed(w)

C5_Witness ==
    \E w \in Workers :
        /\ pc[w] = "allow" /\ ~privileged[w]
        /\ LET cs == ContainersIn(spec[w]).a
           IN  Len(cs) = 2 /\ PrivilegedOf(cs[1]) = Str("true") /\ PrivilegedOf(cs[2]) = Num(1)

\* C6: every response validate gives carries the uid of its request,
\* unchanged, whether the request is allowed or denied.
C6_UidEchoed ==
    \A w \in Workers :
        Is200(w) => HasEnvelope(review[w]) /\ Verdict(w).uid = UidOf(review[w])

C6_Witness ==
    \E w \in Workers :
        /\ DeniedWith(w, PrivilegedMessage)
        /\ UidOf(review[w]) = Str("uid-2")
        /\ Verdict(w).uid = Str("uid-2")

\* C7: a request gets exactly one verdict, never two, and none before the
\* handler returns; the verdict carries a status message exactly when it is
\* a denial, and a denial's message is not empty.
C7_OneVerdict ==
    \A w \in Workers :
        /\ Len(responses[w]) <= 1
        /\ pc[w] # "done" => responses[w] = <<>>
        /\ pc[w] = "done" /\ WellFormed(review[w]) =>
              /\ Len(responses[w]) = 1
              /\ Is200(w)
              /\ ("status" \in DOMAIN Verdict(w)) <=> (Verdict(w).allowed = FALSE)
              /\ Denied(w) => Verdict(w).status.message # ""

C7_Witness ==
    \E w \in Workers :
        /\ pc[w] = "done" /\ WellFormed(review[w])
        /\ Allowed(w)
        /\ DOMAIN Verdict(w) = {"uid", "allowed"}

\* C8: a request with uid and object in which some nested field is absent
\* raises no error and gets the verdict of the same request with the absent
\* fields written out as the empty mapping, the empty sequence and false.
C8_AbsentFields ==
    \A w \in Workers :
        pc[w] = "done" /\ WellFormed(review[w]) /\ SomeAbsent(review[w]) =>
            /\ Is200(w)
            /\ responses[w] = <<validate(Filled(review[w]), RequiredLabels)>>

C8_Witness ==
    \E w \in Workers :
        /\ pc[w] = "done" /\ WellFormed(review[w])
        /\ ~Present(ObjectOf(review[w]), "metadata")
        /\ ~Present(ObjectOf(review[w]), "spec")
        /\ DeniedWith(w, "Missing required labels: ['team', 'environment']")

\* C9, as stated: a container whose securityContext is present but is not a
\* mapping (null, a string, a list) is treated as not privileged, and the
\* evaluation completes with a verdict.
C9_AnySecurityContext ==
    \A w \in Workers :
        pc[w] = "done" /\ LabelsWellFormed(review[w]) /\ ContainersWellFormed(review[w]) =>
            /\ Is200(w)
            /\ MissingKeys(review[w]) = {} /\ ~SomePrivileged(PodSpecOf(review[w])) => Allowed(w)

\* C10: with requests handled concurrently, every response is the one the
\* request gets when handled alone, the same request always gets the same
\* response, and REQUIRED_LABELS is never modified.
C10_Isolated ==
    /\ REQUIRED_LABELS = <<"team", "environment">>
    /\ \A w \in Workers :
          pc[w] = "done" => responses[w] = <<validate(review[w], <<"team", "environment">>)>>
    /\ \A v, w \in Workers :
          pc[v] = "done" /\ pc[w] = "done" /\ review[v] = review[w] =>
              responses[v] = responses[w]

C10_Witness ==
    \E v, w \in Workers :
        /\ v # w
        /\ pc[v] = "deny_missing" /\ missing[v] = <<"team", "environment">>
        /\ Denied(w) /\ Verdict(w).status.message = "Missing required labels: ['environment']"

====
